---- MODULE Spec2Model ----
(***************************************************************************)
(* Model of package eg (github.com/natefinch/eg), src/eg.go lines 161-328. *)
(*                                                                         *)
(* The state is the heap of *Err objects built so far and the record of    *)
(* the last call made by user code.  One action per public function:       *)
(* New, Wrap, Note, Pass and the method Annotate of Err.  All calls are    *)
(* made without format arguments (len(args) == 0), so msg is used as is.   *)
(***************************************************************************)
EXTENDS Integers, Sequences, FiniteSets, TLC

VARIABLES heap, last, chain

vars == <<heap, last, chain>>

----------------------------------------------------------------------------
(* Bounds *)

\* Total number of call-sites recorded in the heap (Errs plus annotations).
MaxLocs == 3

----------------------------------------------------------------------------
(* Error values (Go interface values: dynamic type + pointer) *)

\* The nil error interface value.
Nil == [type |-> "nil", ref |-> 0]

\* An error made with errors.New: it has no Annotate method.
Plain == [type |-> "*errors.errorString", ref |-> 0]

PlainText == "io"

\* A *Err pointing at heap cell n.
ErrVal(n) == [type |-> "*eg.Err", ref |-> n]

\* A foo{*eg.Err} struct value embedding the pointer to heap cell n.
FooVal(n) == [type |-> "foo", ref |-> n]

\* Values user code can hand to the package when the heap is h.
Values(h) == {Nil, Plain} \cup {ErrVal(n) : n \in 1..Len(h)}
                          \cup {FooVal(n) : n \in 1..Len(h)}

Msgs == {"", "a", "b"}

\* The type assertion err.(Annotatable): *Err has Annotate, foo gets it by
\* embedding *Err; nil and errorString do not have it.
Annotatable(err) == err.type \in {"*eg.Err", "foo"}

----------------------------------------------------------------------------
(* Call stacks and locate *)

MainFrame == [Function |-> "main.main", File |-> "main.go", Line |-> 5]

\* User code is a straight-line function: its k-th call into the package
\* stands on a line of its own.
UserSite(k) == [Function |-> "main.run", File |-> "main.go", Line |-> 10 + k]

UserStack(site) == <<MainFrame, site>>

\* A frame of the package's own code, stopped at the given line.
Push(stack, fn, line) ==
    Append(stack, [Function |-> "github.com/natefinch/eg." \o fn,
                   File |-> "eg.go", Line |-> line])

\* runtime.Caller(skip) + runtime.FuncForPC(pc).Name(): skip 0 is the function
\* calling Caller; beyond the bottom of the stack everything is zero.
Caller(stack, skip) ==
    IF Len(stack) - skip >= 1
    THEN stack[Len(stack) - skip]
    ELSE [Function |-> "", File |-> "", Line |-> 0]

locate(stack, depth) == Caller(Push(stack, "locate", 310), depth + 1)

LocationString(l) ==
    "[" \o l.Function \o "@" \o l.File \o ":" \o ToString(l.Line) \o "]"

AnnotationString(a) == a.Message

AnnotationDetails(a) == LocationString(a.location) \o " " \o a.Message

----------------------------------------------------------------------------
(* Construction and propagation. Each returns the new heap and the result. *)

New(h, stack, msg) ==
    [heap   |-> Append(h, [message |-> msg,
                           location |-> locate(Push(stack, "New", 196), 1),
                           cause |-> Nil,
                           annotations |-> <<>>]),
     result |-> ErrVal(Len(h) + 1)]

\* Annotate putting the new annotation in front of the list.
AnnotatePrepend(h, n, msg, function, file, line) ==
    [h EXCEPT ![n].annotations =
        <<[Message |-> msg,
           location |-> [Function |-> function, File |-> file,
                         Line |-> line]]>> \o @]

\* Annotate folding the text into the Err's message instead of recording it.
AnnotateIntoMessage(h, n, msg, function, file, line) ==
    [h EXCEPT ![n].message = msg \o ": " \o @]

Annotate(h, n, msg, function, file, line) ==
    [h EXCEPT ![n].annotations =
        Append(@, [Message |-> msg,
                   location |-> [Function |-> function, File |-> file,
                                 Line |-> line]])]

\* wrap handing its own depth to locate without counting its own frame.
wrapShallow(h, stack, err, depth, msg) ==
    [heap   |-> Append(h, [message |-> msg,
                           location |-> locate(Push(stack, "wrap", 262),
                                               depth),
                           cause |-> err,
                           annotations |-> <<>>]),
     result |-> ErrVal(Len(h) + 1)]

wrap(h, stack, err, depth, msg) ==
    [heap   |-> Append(h, [message |-> msg,
                           location |-> locate(Push(stack, "wrap", 262),
                                               depth + 1),
                           cause |-> err,
                           annotations |-> <<>>]),
     result |-> ErrVal(Len(h) + 1)]

Wrap(h, stack, err, msg) == wrap(h, Push(stack, "Wrap", 254), err, 1, msg)

\* note without the Annotatable branch: it wraps whatever it is given.
noteWrapsAlways(h, stack, err, depth, msg) ==
    wrap(h, Push(stack, "note", 282), err, depth + 1, msg)

note(h, stack, err, depth, msg) ==
    IF Annotatable(err)
    THEN LET l == locate(Push(stack, "note", 273), depth + 1)
         IN  [heap   |-> Annotate(h, err.ref, msg, l.Function, l.File, l.Line),
              result |-> err]
    ELSE wrap(h, Push(stack, "note", 282), err, depth + 1, msg)

Note(h, stack, err, msg) == note(h, Push(stack, "Note", 268), err, 1, msg)

\* The predicates user code passes to Pass.
Preds == {"isFoo", "always"}

\* The predicate lists user code passes to Pass.
PredLists == {<<>>, <<"isFoo">>, <<"isFoo", "always">>, <<"always", "isFoo">>}

shouldPass(p, err) ==
    CASE p = "isFoo"  -> err.type = "foo"
      [] p = "always" -> TRUE

\* The loop of Pass calling every predicate before it decides.
PassLoopEvaluatesAll(h, stack, err, msg, iff, i) ==
    [evaluated |-> [k \in 1..(Len(iff) - i + 1) |-> i + k - 1]]
    @@ IF \E k \in i..Len(iff) : shouldPass(iff[k], err)
       THEN note(h, Push(stack, "Pass", 290), err, 1, msg)
       ELSE wrap(h, Push(stack, "Pass", 293), err, 1, msg)

\* The loop of Pass from its i-th predicate on; evaluated lists the indexes of
\* the predicates that were called.
RECURSIVE PassLoop(_, _, _, _, _, _)
PassLoop(h, stack, err, msg, iff, i) ==
    IF i > Len(iff)
    THEN [evaluated |-> <<>>] @@ wrap(h, Push(stack, "Pass", 293), err, 1, msg)
    ELSE IF shouldPass(iff[i], err)
         THEN [evaluated |-> <<i>>]
              @@ note(h, Push(stack, "Pass", 290), err, 1, msg)
         ELSE LET r == PassLoop(h, stack, err, msg, iff, i + 1)
              IN  [r EXCEPT !.evaluated = <<i>> \o @]

Pass(h, stack, err, msg, iff) == PassLoop(h, stack, err, msg, iff, 1)

----------------------------------------------------------------------------
(* Rendering *)

RECURSIVE Join(_, _)
Join(msgs, sep) ==
    IF msgs = <<>> THEN ""
    ELSE IF Len(msgs) = 1 THEN msgs[1]
    ELSE msgs[1] \o sep \o Join(Tail(msgs), sep)

\* The annotations walked oldest-first.
Forward(s) == [i \in 1..Len(s) |-> s[i]]

\* The loops "for x := len(e.annotations) - 1; x >= 0; x--" of Error and
\* Details.
Reverse(s) == [i \in 1..Len(s) |-> s[Len(s) + 1 - i]]

Cause(h, v) == h[v.ref].cause

RECURSIVE Error(_, _)
Error(h, v) ==
    IF v = Plain THEN PlainText
    ELSE LET e    == h[v.ref]
             anns == Reverse([x \in 1..Len(e.annotations) |->
                                AnnotationString(e.annotations[x])])
             own  == Append(anns, e.message)
             msgs == IF e.cause # Nil THEN Append(own, Error(h, e.cause))
                     ELSE own
         IN  Join(msgs, ": ")

Details(h, v) ==
    LET e    == h[v.ref]
        anns == Reverse([x \in 1..Len(e.annotations) |->
                           AnnotationDetails(e.annotations[x])])
        own  == Append(anns, LocationString(e.location) \o " " \o e.message)
        msgs == IF e.cause # Nil THEN Append(own, Error(h, e.cause)) ELSE own
    IN  Join(msgs, "\n")

----------------------------------------------------------------------------
(* The program *)

RECURSIVE SumAnnotations(_)
SumAnnotations(h) ==
    IF h = <<>> THEN 0
    ELSE Len(h[1].annotations) + SumAnnotations(Tail(h))

\* Call-sites recorded so far.
Used(h) == Len(h) + SumAnnotations(h)

NoChain == [start |-> Nil, base |-> "", msgs |-> <<>>, cur |-> Nil]

\* The error threaded through consecutive Note calls (err = Note(err, m)), as
\* in ExampleNote: where it started, its rendering then, the messages since.
Thread(c, h, err, msg, result) ==
    IF err = Nil THEN NoChain
    ELSE IF c.msgs # <<>> /\ c.cur = err
         THEN [c EXCEPT !.msgs = Append(@, msg), !.cur = result]
         ELSE [start |-> err, base |-> Error(h, err), msgs |-> <<msg>>,
               cur |-> result]

Call(op, site, err, msg, iff, evaluated, result) ==
    [op |-> op, caller |-> site, err |-> err, msg |-> msg, iff |-> iff,
     evaluated |-> evaluated, result |-> result]

Init ==
    /\ heap = <<>>
    /\ last = Call("none", MainFrame, Nil, "", <<>>, <<>>, Nil)
    /\ chain = NoChain

CallNew ==
    \E site \in {UserSite(Used(heap))}, msg \in Msgs :
        LET r == New(heap, UserStack(site), msg)
        IN  /\ Used(heap) < MaxLocs
            /\ heap' = r.heap
            /\ last' = Call("New", site, Nil, msg, <<>>, <<>>, r.result)
            /\ chain' = NoChain

CallWrap ==
    \E site \in {UserSite(Used(heap))}, err \in Values(heap), msg \in Msgs :
        LET r == Wrap(heap, UserStack(site), err, msg)
        IN  /\ Used(heap) < MaxLocs
            /\ heap' = r.heap
            /\ last' = Call("Wrap", site, err, msg, <<>>, <<>>, r.result)
            /\ chain' = NoChain

CallNote ==
    \E site \in {UserSite(Used(heap))}, err \in Values(heap), msg \in Msgs :
        LET r == Note(heap, UserStack(site), err, msg)
        IN  /\ Used(heap) < MaxLocs
            /\ heap' = r.heap
            /\ last' = Call("Note", site, err, msg, <<>>, <<>>, r.result)
            /\ chain' = Thread(chain, heap, err, msg, r.result)

CallPass ==
    \E site \in {UserSite(Used(heap))}, err \in Values(heap), msg \in Msgs,
       iff \in PredLists :
        LET r == Pass(heap, UserStack(site), err, msg, iff)
        IN  /\ Used(heap) < MaxLocs
            /\ heap' = r.heap
            /\ last' = Call("Pass", site, err, msg, iff, r.evaluated, r.result)
            /\ chain' = NoChain

\* User code calling e.Annotate(msg, function, file, line) itself, on a *Err
\* or on a foo (the method is promoted from the embedded *Err).
CallAnnotate ==
    \E site \in {UserSite(Used(heap))}, err \in Values(heap), msg \in Msgs :
        /\ Annotatable(err)
        /\ Used(heap) < MaxLocs
        /\ heap' = Annotate(heap, err.ref, msg, site.Function, site.File,
                            site.Line)
        /\ last' = Call("Annotate", site, err, msg, <<>>, <<>>, Nil)
        /\ chain' = NoChain

Next == CallNew \/ CallWrap \/ CallNote \/ CallPass \/ CallAnnotate

Spec == Init /\ [][Next]_vars

----------------------------------------------------------------------------
(* Helpers of the properties *)

IsPrefix(s, t) == Len(s) <= Len(t) /\ SubSeq(t, 1, Len(s)) = s

Cells == 1..Len(heap)

\* The index of the first predicate of iff that holds of err, 0 if none does.
FirstMatch(iff, err) ==
    IF \E i \in 1..Len(iff) : shouldPass(iff[i], err)
    THEN CHOOSE i \in 1..Len(iff) :
            /\ shouldPass(iff[i], err)
            /\ \A j \in 1..(i - 1) : ~shouldPass(iff[j], err)
    ELSE 0

\* The step annotated err in place: one annotation with msg at the end of
\* err's list, nothing else touched.
AnnotatedInPlace(h, hNew, err, msg) ==
    /\ Len(hNew) = Len(h)
    /\ \A n \in 1..Len(h) : n # err.ref => hNew[n] = h[n]
    /\ hNew[err.ref].message = h[err.ref].message
    /\ hNew[err.ref].location = h[err.ref].location
    /\ hNew[err.ref].cause = h[err.ref].cause
    /\ Len(hNew[err.ref].annotations) = Len(h[err.ref].annotations) + 1
    /\ IsPrefix(h[err.ref].annotations, hNew[err.ref].annotations)
    /\ hNew[err.ref].annotations[Len(hNew[err.ref].annotations)].Message = msg

\* The step made one new Err with message msg and cause c, nothing else
\* touched.
WrappedAnew(h, hNew, result, c, msg) ==
    /\ Len(hNew) = Len(h) + 1
    /\ SubSeq(hNew, 1, Len(h)) = h
    /\ result = ErrVal(Len(hNew))
    /\ hNew[Len(hNew)].message = msg
    /\ hNew[Len(hNew)].cause = c
    /\ hNew[Len(hNew)].annotations = <<>>

\* What Note(err, msg) does to a non-nil err.
NoteEffect(h, hNew, err, msg, result) ==
    IF Annotatable(err)
    THEN result = err /\ AnnotatedInPlace(h, hNew, err, msg)
    ELSE WrappedAnew(h, hNew, result, err, msg)

\* msgs put newest-first in front of base, each followed by ": ".
RECURSIVE NewestFirst(_, _)
NewestFirst(msgs, base) ==
    IF msgs = <<>> THEN base
    ELSE NewestFirst(Tail(msgs), Head(msgs) \o ": " \o base)

Messages(anns) == [x \in 1..Len(anns) |-> anns[x].Message]

\* The Errs whose state the rendering of v reads: v and its causes.
RECURSIVE CauseChain(_, _)
CauseChain(h, v) ==
    IF Annotatable(v) THEN {v.ref} \cup CauseChain(h, h[v.ref].cause) ELSE {}

----------------------------------------------------------------------------
(* C1 *)

\* C1: Wrap, Note and Pass return nil when the error they are given is nil.
C1_AbsentInAbsentOut ==
    (last.op \in {"Wrap", "Note", "Pass"} /\ last.err = Nil)
        => last.result = Nil

----------------------------------------------------------------------------
(* C2 *)

\* C2: Note(err, m) on a non-nil err that accepts annotations returns err
\* itself with exactly one annotation carrying m appended; on one that does
\* not, it returns a new Err with message m and cause err, and nothing that
\* existed before is modified.
C2_Note ==
    [][(last'.op = "Note" /\ last'.err # Nil)
         => NoteEffect(heap, heap', last'.err, last'.msg, last'.result)]_vars

\* Plain was threaded through two Notes: the first wrapped it, the second
\* annotated the wrapper in place.
C2_Witness ==
    /\ last.op = "Note"
    /\ chain.start = Plain
    /\ Len(chain.msgs) = 2
    /\ last.result = last.err
    /\ heap[last.result.ref].cause = Plain
    /\ Len(heap[last.result.ref].annotations) = 1

----------------------------------------------------------------------------
(* C3 *)

\* C3: when some predicate holds of err, Pass calls the predicates in list
\* order up to the first that holds and no further, and does what Note(err, m)
\* does.
C3_PassFirstMatch ==
    [][(last'.op = "Pass" /\ FirstMatch(last'.iff, last'.err) # 0)
         => /\ last'.evaluated
                 = [i \in 1..FirstMatch(last'.iff, last'.err) |-> i]
            /\ IF last'.err = Nil
               THEN WrappedAnew(heap, heap', last'.result, Nil, last'.msg)
               ELSE NoteEffect(heap, heap', last'.err, last'.msg,
                               last'.result)]_vars

\* Both predicates hold of the foo; only the first was called and the foo
\* came back.
C3_Witness ==
    /\ last.op = "Pass"
    /\ last.iff = <<"isFoo", "always">>
    /\ last.err.type = "foo"
    /\ last.evaluated = <<1>>
    /\ last.result = last.err

----------------------------------------------------------------------------
(* C4 *)

\* C4: when no predicate holds of a non-nil err, Pass returns a new Err that
\* has no cause and renders as m, ": " and err's rendering.
C4_NoMatchMasks ==
    (last.op = "Pass" /\ last.err # Nil /\ FirstMatch(last.iff, last.err) = 0)
        => /\ last.result = ErrVal(Len(heap))
           /\ Cause(heap, last.result) = Nil
           /\ Error(heap, last.result)
                = last.msg \o ": " \o Error(heap, last.err)

----------------------------------------------------------------------------
(* C5 *)

\* C5: an error threaded through Note with non-empty messages m1..mn renders
\* as "mn: ...: m1: " followed by its rendering before the first Note, and
\* the messages are stored oldest-first.
C5_NoteThread ==
    (chain.msgs # <<>> /\ \A i \in 1..Len(chain.msgs) : chain.msgs[i] # "")
        => /\ Error(heap, chain.cur) = NewestFirst(chain.msgs, chain.base)
           /\ LET e == heap[chain.cur.ref]
                  stored == Messages(e.annotations)
              IN  IF Annotatable(chain.start)
                  THEN /\ chain.cur = chain.start
                       /\ SubSeq(stored,
                                 Len(stored) - Len(chain.msgs) + 1,
                                 Len(stored)) = chain.msgs
                  ELSE /\ e.cause = chain.start
                       /\ <<e.message>> \o stored = chain.msgs

\* An Err was annotated twice with different non-empty messages.
C5_Witness ==
    /\ Annotatable(chain.start)
    /\ Len(chain.msgs) = 2
    /\ chain.msgs[1] # ""
    /\ chain.msgs[2] # ""
    /\ chain.msgs[1] # chain.msgs[2]

----------------------------------------------------------------------------
(* C6 *)

StripEmpty(h, n) ==
    [h EXCEPT ![n].annotations = SelectSeq(@, LAMBDA a : a.Message # "")]

\* C6: Error() of an Err equals Error() of the same Err with its
\* empty-message annotations removed.
C6_EmptySkipped ==
    \A n \in Cells :
        Error(heap, ErrVal(n)) = Error(StripEmpty(heap, n), ErrVal(n))

----------------------------------------------------------------------------
(* C7 *)

\* The detailed rendering as documented: the cause contributes its own
\* detailed rendering (its Error() when it has no Details method).
RECURSIVE DetailedRendering(_, _)
DetailedRendering(h, v) ==
    IF v = Plain THEN PlainText
    ELSE LET e    == h[v.ref]
             anns == [x \in 1..Len(e.annotations) |->
                        AnnotationDetails(
                            e.annotations[Len(e.annotations) + 1 - x])]
             own  == Append(anns,
                            LocationString(e.location) \o " " \o e.message)
             msgs == IF e.cause # Nil
                     THEN Append(own, DetailedRendering(h, e.cause))
                     ELSE own
         IN  Join(msgs, "\n")

\* C7: Details() of an Err is the newline-join of its annotations' detailed
\* lines newest-first, its own call-site and message, and the detailed
\* rendering of its cause.
C7_DetailsRecursive ==
    \A n \in Cells :
        Details(heap, ErrVal(n)) = DetailedRendering(heap, ErrVal(n))

----------------------------------------------------------------------------
(* C8 *)

\* C8: every Err keeps its message, call-site and cause, and its annotation
\* list only grows at the end.
C8_AppendOnly ==
    [][/\ Len(heap') >= Len(heap)
       /\ \A n \in Cells :
            /\ heap'[n].message = heap[n].message
            /\ heap'[n].location = heap[n].location
            /\ heap'[n].cause = heap[n].cause
            /\ IsPrefix(heap[n].annotations, heap'[n].annotations)]_vars

\* An Err with a cause has been annotated twice.
C8_Witness ==
    \E n \in Cells :
        /\ heap[n].cause # Nil
        /\ Len(heap[n].annotations) = 2

----------------------------------------------------------------------------
(* C9 *)

\* C9: the call-site recorded by New, Wrap, Note or Pass, in the new Err or in
\* the appended annotation, is the frame of the user code that made the call.
C9_CallerSite ==
    [][last'.op \in {"New", "Wrap", "Note", "Pass"}
         => \/ /\ Len(heap') = Len(heap) + 1
               /\ heap'[Len(heap')].location = last'.caller
            \/ /\ Len(heap') = Len(heap)
               /\ \E n \in Cells :
                    /\ Len(heap'[n].annotations)
                         = Len(heap[n].annotations) + 1
                    /\ heap'[n].annotations[Len(heap'[n].annotations)].location
                         = last'.caller]_vars

\* Pass took the note branch on an error that cannot be annotated, so that
\* locate ran below Pass, note and wrap.
C9_Witness ==
    /\ last.op = "Pass"
    /\ last.err = Plain
    /\ last.evaluated = <<1, 2>>
    /\ last.result = ErrVal(Len(heap))
    /\ heap[Len(heap)].location = last.caller
    /\ last.caller.Function = "main.run"

----------------------------------------------------------------------------
(* C10 *)

\* C10 as claimed: a call whose argument is not w changes neither w's
\* Cause() nor the text of w's Error() and Details().
C10_CauseExclusivelyOwned ==
    [][\A w \in Cells :
        (heap[w].cause # Nil /\ last'.err \notin {ErrVal(w), FooVal(w)})
            => /\ Cause(heap', ErrVal(w)) = Cause(heap, ErrVal(w))
               /\ Error(heap', ErrVal(w)) = Error(heap, ErrVal(w))
               /\ Details(heap', ErrVal(w)) = Details(heap, ErrVal(w))]_vars

\* C10 amended: no call changes w's Cause(), and a call changes the text of
\* w's Error() or Details() only by appending an annotation to w or to an Err
\* in w's chain of causes.
C10_CauseIdentityStable ==
    [][\A w \in Cells :
        /\ Cause(heap', ErrVal(w)) = Cause(heap, ErrVal(w))
        /\ (\A n \in CauseChain(heap, ErrVal(w)) :
                heap'[n].annotations = heap[n].annotations)
            => /\ Error(heap', ErrVal(w)) = Error(heap, ErrVal(w))
               /\ Details(heap', ErrVal(w)) = Details(heap, ErrVal(w))]_vars

\* w wraps e, and e has since been annotated through its own reference: w's
\* cause is still e and w's text now shows the annotation.
C10_Witness ==
    \E w \in Cells :
        /\ Annotatable(heap[w].cause)
        /\ last.op \in {"Note", "Pass"}
        /\ last.err = heap[w].cause
        /\ last.result = last.err
        /\ last.msg = "a"
        /\ heap[w].message = "b"
        /\ heap[last.err.ref].message = "b"
        /\ heap[last.err.ref].annotations # <<>>
        /\ Error(heap, ErrVal(w)) = "b: a: b"

====
